---- MODULE Spec2Model ----
(***************************************************************************)
(* Model of src/src/mcp_agent/logging/transport.py: the AsyncEventBus       *)
(* (start / stop / emit / _process_events) and the batching HTTPTransport   *)
(* (send_event / stop / _flush), under asyncio's cooperative scheduling:    *)
(* every action runs one coroutine from one suspension point (await) to the *)
(* next.                                                                    *)
(***************************************************************************)
EXTENDS Integers, Sequences, FiniteSets, TLC

\* ------------------------------------------------------------- bounds
NProcs == 2          \* coroutines calling the bus concurrently
MaxEvents == 2       \* emit calls issued in one behaviour
MaxStarts == 2       \* start() calls that pass the running check
MaxNoops == 1        \* recorded stop() calls repeated after the bus was stopped
MaxMapOps == 2       \* add_listener / remove_listener calls in one behaviour
MapEvents == 1       \* emit calls issued in a behaviour with map calls
MapStarts == 2       \* start() calls passing the check in a behaviour with map calls

NCallers == 2        \* coroutines calling the HTTPTransport concurrently
MaxSends == 4        \* send_event calls issued in one behaviour
MaxBatch == 3        \* largest batch_size tried
MaxHStops == 2       \* HTTPTransport.stop() calls issued in one behaviour

Procs == 1..NProcs
Callers == 1..NCallers
Tasks == 1..MaxStarts

\* The listeners: L1 is well behaved, L2's handle_event fails on every
\* call; both are registered before the bus is first started.  L3 is well
\* behaved and registered later, if at all.  All are lifecycle-aware.
Names == {"L1", "L2", "L3"}
Failing == {"L2"}
LifecycleAware == {"L1", "L2", "L3"}

\* The dummy entry a removed key leaves in the dict.
Gone == "-"

Range(s) == {s[i] : i \in 1..Len(s)}

VARIABLES
  \* AsyncEventBus fields
  listeners,    \* self.listeners: the names, in insertion order
  running,      \* self._running
  stop_event,   \* self._stop_event
  queue,        \* self._queue: the items waiting
  unfinished,   \* self._queue._unfinished_tasks
  task,         \* self._task: a task id, 0 for None
  \* the background tasks created by start()
  ntasks, tstate, tcur, tpend, tcancel,
  badMode,      \* how L2 fails: "sync" (the call raises) or "async" (the coroutine raises)
  \* the calling coroutines
  pc, pev, pidx, pwait, psnap,
  \* history
  nextEv, transportLog, tdone, tfail, stoppedEmits, returned, raised,
  recv, fin, hookStarts, hookStops, stopTrans, stopNoops, settled,
  enqLog, aborted,
  \* the listeners' lifecycle hooks and the iteration over the map
  startFails,   \* the listeners whose start() hook raises
  stopFails,    \* the listeners whose stop() hook raises
  evCap,        \* the emit calls issued in one behaviour
  startCap,     \* the start() calls that pass the running check in one behaviour
  psize,        \* the map's size when a caller's loop over it began
  startRaised,  \* the start() calls that ended with an exception
  iterErr,      \* the operations ended by "dictionary changed size during iteration"
  mapOps,       \* the add_listener / remove_listener calls made
  \* HTTPTransport fields
  batch_size,   \* self.batch_size
  batch,        \* self.batch
  lock,         \* self.lock: the caller holding it, 0 when free
  lockWaiters,  \* self.lock: the callers waiting in acquire(), oldest first
  session,      \* self._session is not None
  \* the coroutines calling the transport
  hpc, hev, payload,
  \* history
  nsent, hstops, stopLog, overlap, appendLog, posts, failedEvs, hraised, lastRet

busVars == <<listeners, running, stop_event, queue, unfinished, task>>
taskVars == <<ntasks, tstate, tcur, tpend, tcancel, badMode>>
procVars == <<pc, pev, pidx, pwait, psnap>>
histVars == <<nextEv, transportLog, tdone, tfail, stoppedEmits, returned, raised,
              recv, fin, hookStarts, hookStops, stopTrans, stopNoops, settled,
              enqLog, aborted>>
cfgVars == <<startFails, stopFails, evCap, startCap>>
lifeVars == <<cfgVars, psize, startRaised, iterErr, mapOps>>
busAll == <<busVars, taskVars, procVars, histVars, lifeVars>>
httpVars == <<batch_size, batch, lock, lockWaiters, session, hpc, hev, payload,
              nsent, hstops, stopLog, overlap, appendLog, posts, failedEvs,
              hraised, lastRet>>
vars == <<busAll, httpVars>>

\* -------------------------------------------------------------- Init
\* The bus after construction and the registration of L1 and L2.
BusFields ==
  /\ listeners = <<"L1", "L2">>
  /\ running = FALSE
  /\ stop_event = FALSE
  /\ queue = <<>>
  /\ unfinished = 0
  /\ task = 0
  /\ ntasks = 0
  /\ tstate = [t \in Tasks |-> "unborn"]
  /\ tcur = [t \in Tasks |-> 0]
  /\ tpend = [t \in Tasks |-> {}]
  /\ tcancel = [t \in Tasks |-> FALSE]
  /\ pc = [p \in Procs |-> "idle"]
  /\ pev = [p \in Procs |-> 0]
  /\ pidx = [p \in Procs |-> 0]
  /\ pwait = [p \in Procs |-> 0]
  /\ psnap = [p \in Procs |-> {}]
  /\ nextEv = 0
  /\ transportLog = <<>>
  /\ tdone = {}
  /\ tfail = {}
  /\ stoppedEmits = {}
  /\ returned = {}
  /\ raised = {}
  /\ recv = [l \in Names |-> <<>>]
  /\ fin = [l \in Names |-> {}]
  /\ hookStarts = [l \in Names |-> 0]
  /\ hookStops = [l \in Names |-> 0]
  /\ stopTrans = 0
  /\ stopNoops = 0
  /\ settled = {}
  /\ enqLog = <<>>
  /\ aborted = {}
  /\ psize = [p \in Procs |-> 0]
  /\ startRaised = 0
  /\ iterErr = {}
  /\ mapOps = 0

\* The HTTPTransport after construction.
HTTPFields ==
  /\ batch = <<>>
  /\ lock = 0
  /\ lockWaiters = <<>>
  /\ session = FALSE
  /\ hpc = [c \in Callers |-> "idle"]
  /\ hev = [c \in Callers |-> 0]
  /\ payload = [c \in Callers |-> <<>>]
  /\ nsent = 0
  /\ hstops = 0
  /\ stopLog = <<>>
  /\ overlap = FALSE
  /\ appendLog = <<>>
  /\ posts = <<>>
  /\ failedEvs = {}
  /\ hraised = {}
  /\ lastRet = [len |-> 0, flushed |-> FALSE]

\* The bus with an abstract transport; the HTTPTransport is not in use.
Init ==
  /\ BusFields
  /\ badMode \in {"sync", "async"}
  /\ startFails = {}
  /\ stopFails = {}
  /\ evCap = MaxEvents
  /\ startCap = MaxStarts
  /\ HTTPFields
  /\ batch_size = 1

\* The HTTPTransport on its own, with any batch_size >= 1.
HTTPInit ==
  /\ BusFields
  /\ badMode = "async"
  /\ startFails = {}
  /\ stopFails = {}
  /\ evCap = MaxEvents
  /\ startCap = MaxStarts
  /\ HTTPFields
  /\ batch_size \in 1..MaxBatch

\* ------------------------------------------------------ queue helpers
\* asyncio.Queue.join() returns once task_done() has brought the count of
\* unfinished items to 0: every stop() suspended in join is then woken.
WakeJoiners(u) ==
  [p \in Procs |-> IF u = 0 /\ pc[p] = "stop_join" THEN "stop_joined" ELSE pc[p]]

\* The names registered, and len(self.listeners).
Registered == Range(listeners) \ {Gone}

Size == Cardinality(Registered)

\* The iterator of self.listeners.values() raises RuntimeError when asked
\* for the next value after the dict's size has changed.
SizeChanged(p) == Size # psize[p]

\* isinstance(listener, LifecycleAwareListener)
IsLifecycleAware(l) == l \in LifecycleAware

\* The next lifecycle-aware listener after position i of the map, 0 if none.
NextHook(i) ==
  LET later == {j \in (i+1)..Len(listeners) : IsLifecycleAware(listeners[j])}
  IN IF later = {} THEN 0 ELSE CHOOSE j \in later : \A k \in later : j <= k

\* The listeners whose handle_event call yields an awaitable for gather:
\* a call that raises is caught and logged.
Awaitables ==
  {l \in Registered : ~(l \in Failing /\ badMode = "sync")}

\* The callers are interchangeable and an idle one holds no state: the next
\* call is made by the lowest idle caller.
Idle(p) == pc[p] = "idle" /\ \A q \in Procs : q < p => pc[q] # "idle"

\* `for listener in self.listeners.values(): listener.handle_event(event)`
InvokeAll(r, e) ==
  [l \in Names |-> IF l \in Registered THEN Append(r[l], e) ELSE r[l]]

\* ---------------------------------------------------------------- emit
\* Mutant: emit without its running check.
EmitAcceptsAlways == TRUE

\* `if not self._running: return`
EmitAccepts == running

\* Mutant: emit hands the event to the transport without awaiting it and
\* returns at once.
EmitNoAwait(p) ==
  /\ pc[p] = "idle"
  /\ \A q \in Procs : q < p => pc[q] # "idle"
  /\ nextEv < evCap
  /\ LET e == nextEv + 1 IN
       /\ nextEv' = e
       /\ stoppedEmits' = IF running THEN stoppedEmits ELSE stoppedEmits \cup {e}
       /\ IF ~running
            THEN UNCHANGED <<transportLog, queue, enqLog, unfinished, returned>>
            ELSE /\ transportLog' = Append(transportLog, e)
                 /\ queue' = Append(queue, e)
                 /\ enqLog' = Append(enqLog, e)
                 /\ unfinished' = unfinished + 1
                 /\ returned' = returned \cup {e}
  /\ UNCHANGED <<listeners, running, stop_event, task, taskVars, procVars,
                 tdone, tfail, raised, recv, fin, hookStarts, hookStops,
                 stopTrans, stopNoops, settled, aborted>>
  /\ UNCHANGED lifeVars
  /\ UNCHANGED httpVars

\* Mutant: emit queues the event for the listeners before it calls the
\* transport.
EmitQueuesFirst(p) ==
  /\ Idle(p)
  /\ nextEv < evCap
  /\ LET e == nextEv + 1 IN
       /\ nextEv' = e
       /\ stoppedEmits' = IF running THEN stoppedEmits ELSE stoppedEmits \cup {e}
       /\ IF ~EmitAccepts
            THEN UNCHANGED <<transportLog, pc, pev, queue, enqLog, unfinished>>
            ELSE /\ transportLog' = Append(transportLog, e)
                 /\ queue' = Append(queue, e)
                 /\ enqLog' = Append(enqLog, e)
                 /\ unfinished' = unfinished + 1
                 /\ pc' = [pc EXCEPT ![p] = "emit_tx"]
                 /\ pev' = [pev EXCEPT ![p] = e]
  /\ UNCHANGED <<listeners, running, stop_event, task, taskVars, pidx, pwait,
                 psnap, tdone, tfail, returned, raised, recv, fin, hookStarts,
                 hookStops, stopTrans, stopNoops, settled, aborted>>
  /\ UNCHANGED lifeVars
  /\ UNCHANGED httpVars

\* emit, from its call to the await of transport.send_event.
Emit(p) ==
  /\ Idle(p)
  /\ nextEv < evCap
  /\ LET e == nextEv + 1 IN
       /\ nextEv' = e
       /\ stoppedEmits' = IF running THEN stoppedEmits ELSE stoppedEmits \cup {e}
       /\ IF ~EmitAccepts
            THEN UNCHANGED <<transportLog, pc, pev>>
            ELSE /\ transportLog' = Append(transportLog, e)
                 /\ pc' = [pc EXCEPT ![p] = "emit_tx"]
                 /\ pev' = [pev EXCEPT ![p] = e]
  /\ UNCHANGED <<busVars, taskVars, pidx, pwait, psnap, tdone, tfail, returned,
                 raised, recv, fin, hookStarts, hookStops, stopTrans, stopNoops,
                 settled, enqLog, aborted>>
  /\ UNCHANGED lifeVars
  /\ UNCHANGED httpVars

\* Mutant: the transport's exception is not caught and leaves emit.
EmitReraises(p, ok) ==
  /\ tdone' = tdone \cup {pev[p]}
  /\ tfail' = IF ok THEN tfail ELSE tfail \cup {pev[p]}
  /\ queue' = IF ok THEN Append(queue, pev[p]) ELSE queue
  /\ enqLog' = IF ok THEN Append(enqLog, pev[p]) ELSE enqLog
  /\ unfinished' = IF ok THEN unfinished + 1 ELSE unfinished
  /\ returned' = IF ok THEN returned \cup {pev[p]} ELSE returned
  /\ raised' = IF ok THEN raised ELSE raised \cup {pev[p]}
  /\ pc' = [pc EXCEPT ![p] = "idle"]
  /\ pev' = [pev EXCEPT ![p] = 0]

\* emit, from the return of transport.send_event (ok, or an Exception that
\* is caught and printed) to its own return: `await self._queue.put(event)`
\* on the unbounded queue does not suspend.
EmitAfterTransport(p, ok) ==
  /\ tdone' = tdone \cup {pev[p]}
  /\ tfail' = IF ok THEN tfail ELSE tfail \cup {pev[p]}
  /\ queue' = Append(queue, pev[p])
  /\ enqLog' = Append(enqLog, pev[p])
  /\ unfinished' = unfinished + 1
  /\ returned' = returned \cup {pev[p]}
  /\ raised' = raised
  /\ pc' = [pc EXCEPT ![p] = "idle"]
  /\ pev' = [pev EXCEPT ![p] = 0]

EmitResume(p) ==
  /\ pc[p] = "emit_tx"
  /\ \E ok \in BOOLEAN : EmitAfterTransport(p, ok)
  /\ UNCHANGED <<listeners, running, stop_event, task, taskVars, pidx, pwait,
                 psnap, nextEv, transportLog, stoppedEmits, recv, fin, hookStarts,
                 hookStops, stopTrans, stopNoops, settled, aborted>>
  /\ UNCHANGED lifeVars
  /\ UNCHANGED httpVars

\* --------------------------------------------------------------- start
\* The tail of start(): clear the stop event, set the flag, spawn the task.
StartFinish(p) ==
  /\ stop_event' = FALSE
  /\ running' = TRUE
  /\ ntasks' = ntasks + 1
  /\ task' = ntasks + 1
  /\ tstate' = [tstate EXCEPT ![ntasks + 1] = "new"]
  /\ pc' = [pc EXCEPT ![p] = "idle"]
  /\ pidx' = [pidx EXCEPT ![p] = 0]
  /\ psize' = [psize EXCEPT ![p] = 0]
  /\ hookStarts' = hookStarts
  /\ UNCHANGED <<startRaised, iterErr>>

\* An exception leaves start(): a hook's own failure, or the RuntimeError of
\* the iteration over the listener map (kind = {"start"}).
StartRaise(p, kind) ==
  /\ pc' = [pc EXCEPT ![p] = "idle"]
  /\ pidx' = [pidx EXCEPT ![p] = 0]
  /\ psize' = [psize EXCEPT ![p] = 0]
  /\ startRaised' = startRaised + 1
  /\ iterErr' = iterErr \cup kind
  /\ UNCHANGED <<stop_event, running, ntasks, task, tstate, hookStarts>>

\* `for listener in self.listeners.values(): await listener.start()` from
\* position i on (0: the loop begins): the next hook is called, or the tail
\* of start() runs; the iterator raises when the map's size has changed.
StartLoopFrom(p, i) ==
  IF i > 0 /\ SizeChanged(p)
    THEN StartRaise(p, {"start"})
    ELSE IF NextHook(i) = 0
      THEN StartFinish(p)
      ELSE /\ pc' = [pc EXCEPT ![p] = "start_hooks"]
           /\ pidx' = [pidx EXCEPT ![p] = NextHook(i)]
           /\ psize' = [psize EXCEPT ![p] = IF i = 0 THEN Size ELSE @]
           /\ hookStarts' = [hookStarts EXCEPT ![listeners[NextHook(i)]] = @ + 1]
           /\ UNCHANGED <<stop_event, running, ntasks, task, tstate,
                          startRaised, iterErr>>

\* Mutant: a failure of a start() hook is swallowed and start() goes on.
StartSwallows(p, ok) == StartLoopFrom(p, pidx[p])

\* start() after the awaited listener.start() has ended: normally (ok), or
\* with an exception, which start() does not catch.
StartAfterHook(p, ok) ==
  IF ok THEN StartLoopFrom(p, pidx[p]) ELSE StartRaise(p, {})

\* start(), from its call to the await of the first listener.start(), or
\* to its return when no listener is lifecycle-aware.
Start(p) ==
  /\ Idle(p)
  /\ IF running
       THEN UNCHANGED <<stop_event, running, ntasks, task, tstate, pc, pidx,
                        psize, hookStarts, startRaised, iterErr>>
       ELSE /\ ntasks + startRaised
                 + Cardinality({q \in Procs : pc[q] = "start_hooks"}) < startCap
            /\ StartLoopFrom(p, 0)
  /\ UNCHANGED <<listeners, queue, unfinished, tcur, tpend, tcancel, badMode,
                 pev, pwait, psnap, nextEv, transportLog, tdone, tfail, stoppedEmits,
                 returned, raised, recv, fin, hookStops, stopTrans, stopNoops,
                 settled, enqLog, aborted, cfgVars, mapOps>>
  /\ UNCHANGED httpVars

\* start(), resumed when a listener.start() has ended.
StartResume(p) ==
  /\ pc[p] = "start_hooks"
  /\ StartAfterHook(p, listeners[pidx[p]] \notin startFails)
  /\ UNCHANGED <<listeners, queue, unfinished, tcur, tpend, tcancel, badMode,
                 pev, pwait, psnap, nextEv, transportLog, tdone, tfail, stoppedEmits,
                 returned, raised, recv, fin, hookStops, stopTrans, stopNoops,
                 settled, enqLog, aborted, cfgVars, mapOps>>
  /\ UNCHANGED httpVars

\* ---------------------------------------------------------------- stop
\* An exception leaves stop(): a hook's own failure, or the RuntimeError of
\* the iteration over the listener map (kind = {"stop"}).
StopRaise(p, kind) ==
  /\ pc' = [pc EXCEPT ![p] = "idle"]
  /\ pidx' = [pidx EXCEPT ![p] = 0]
  /\ psize' = [psize EXCEPT ![p] = 0]
  /\ iterErr' = iterErr \cup kind
  /\ UNCHANGED <<hookStops, settled>>

\* `for listener in self.listeners.values(): await listener.stop()` from
\* position i on (0: the loop begins): the next hook is called, or stop()
\* returns; the iterator raises when the map's size has changed.
StopHooksFrom(p, i) ==
  IF i > 0 /\ SizeChanged(p)
    THEN StopRaise(p, {"stop"})
    ELSE IF NextHook(i) = 0
      THEN /\ pc' = [pc EXCEPT ![p] = "idle"]
           /\ pidx' = [pidx EXCEPT ![p] = 0]
           /\ psize' = [psize EXCEPT ![p] = 0]
           /\ hookStops' = hookStops
           /\ settled' = settled \cup psnap[p]
           /\ iterErr' = iterErr
      ELSE /\ pc' = [pc EXCEPT ![p] = "stop_hooks"]
           /\ pidx' = [pidx EXCEPT ![p] = NextHook(i)]
           /\ psize' = [psize EXCEPT ![p] = IF i = 0 THEN Size ELSE @]
           /\ hookStops' = [hookStops EXCEPT ![listeners[NextHook(i)]] = @ + 1]
           /\ settled' = settled
           /\ iterErr' = iterErr

\* stop() after the awaited listener.stop() has ended: normally (ok), or
\* with an exception, which stop() does not catch.
StopAfterHook(p, ok) ==
  IF ok THEN StopHooksFrom(p, pidx[p]) ELSE StopRaise(p, {})

\* `if self._task: self._task.cancel(); await self._task; self._task = None`:
\* awaiting a task that is already done does not suspend.
StopCancelFrom(p) ==
  IF task = 0
    THEN /\ UNCHANGED <<task, tcancel, pwait>>
         /\ StopHooksFrom(p, 0)
    ELSE IF tstate[task] = "dead"
      THEN /\ task' = 0
           /\ UNCHANGED <<tcancel, pwait>>
           /\ StopHooksFrom(p, 0)
      ELSE /\ tcancel' = [tcancel EXCEPT ![task] = TRUE]
           /\ pwait' = [pwait EXCEPT ![p] = task]
           /\ pc' = [pc EXCEPT ![p] = "stop_await"]
           /\ UNCHANGED <<task, pidx, psize, hookStops, settled, iterErr>>

\* Mutant: stop without its running check.
StopProceedsAlways == TRUE

\* `if not self._running: return`
StopProceeds == running

\* stop(), from its call to its first suspension: join() when the queue is
\* not empty, else the await of the cancelled task, else the first hook.
Stop(p) ==
  /\ Idle(p)
  /\ IF ~StopProceeds
       THEN /\ stopNoops' = IF stopTrans > 0 /\ stopNoops < MaxNoops
                               THEN stopNoops + 1 ELSE stopNoops
            /\ UNCHANGED <<running, stop_event, stopTrans, psnap, pc, task,
                           tcancel, pwait, pidx, psize, hookStops, settled,
                           iterErr>>
       ELSE /\ running' = FALSE
            /\ stop_event' = TRUE
            /\ stopTrans' = IF running THEN stopTrans + 1 ELSE stopTrans
            /\ psnap' = [psnap EXCEPT ![p] = Range(transportLog)]
            /\ stopNoops' = stopNoops
            /\ IF queue # <<>>
                 THEN /\ pc' = [pc EXCEPT ![p] = "stop_join"]
                      /\ UNCHANGED <<task, tcancel, pwait, pidx, psize,
                                     hookStops, settled, iterErr>>
                 ELSE StopCancelFrom(p)
  /\ UNCHANGED <<listeners, queue, unfinished, ntasks, tstate, tcur, tpend,
                 badMode, pev, nextEv, transportLog, tdone, tfail, stoppedEmits,
                 returned, raised, recv, fin, hookStarts, enqLog, aborted,
                 cfgVars, startRaised, mapOps>>
  /\ UNCHANGED httpVars

\* stop(), resumed when queue.join() returns.
StopJoined(p) ==
  /\ pc[p] = "stop_joined"
  /\ StopCancelFrom(p)
  /\ UNCHANGED <<listeners, running, stop_event, queue, unfinished, ntasks,
                 tstate, tcur, tpend, badMode, pev, psnap, nextEv, transportLog,
                 tdone, tfail, stoppedEmits, returned, raised, recv, fin, hookStarts,
                 stopTrans, stopNoops, enqLog, aborted,
                 cfgVars, startRaised, mapOps>>
  /\ UNCHANGED httpVars

\* stop(), resumed when the awaited task has ended (a CancelledError it
\* raises is swallowed): `self._task = None`, then the hooks.
StopAwaited(p) ==
  /\ pc[p] = "stop_await"
  /\ tstate[pwait[p]] = "dead"
  /\ task' = 0
  /\ pwait' = [pwait EXCEPT ![p] = 0]
  /\ StopHooksFrom(p, 0)
  /\ UNCHANGED <<listeners, running, stop_event, queue, unfinished, taskVars,
                 pev, psnap, nextEv, transportLog, tdone, tfail, stoppedEmits,
                 returned, raised, recv, fin, hookStarts, stopTrans, stopNoops,
                 enqLog, aborted, cfgVars, startRaised, mapOps>>
  /\ UNCHANGED httpVars

\* stop(), resumed when a listener.stop() has ended.
StopResume(p) ==
  /\ pc[p] = "stop_hooks"
  /\ StopAfterHook(p, listeners[pidx[p]] \notin stopFails)
  /\ UNCHANGED <<busVars, taskVars, pev, pwait, psnap, nextEv, transportLog,
                 tdone, tfail, stoppedEmits, returned, raised, recv, fin, hookStarts,
                 stopTrans, stopNoops, enqLog, aborted,
                 cfgVars, startRaised, mapOps>>
  /\ UNCHANGED httpVars

\* ------------------------------------------------- add / remove listener
\* Mutant: add_listener calls the start() hook of the listener it adds.
AddListenerStarts(n) ==
  /\ mapOps < MaxMapOps
  /\ mapOps' = mapOps + 1
  /\ listeners' = IF n \in Range(listeners) THEN listeners ELSE Append(listeners, n)
  /\ hookStarts' = [hookStarts EXCEPT ![n] = @ + 1]
  /\ UNCHANGED <<running, stop_event, queue, unfinished, task, taskVars, procVars,
                 nextEv, transportLog, tdone, tfail, stoppedEmits, returned, raised,
                 recv, fin, hookStops, stopTrans, stopNoops, settled,
                 enqLog, aborted, cfgVars, psize, startRaised,
                 iterErr>>
  /\ UNCHANGED httpVars

\* add_listener(name, listener): `self.listeners[name] = listener`.  A new
\* name takes the next free slot of the dict; an existing name keeps its
\* slot and gets the new value.
AddListener(n) ==
  /\ mapOps < MaxMapOps
  /\ mapOps' = mapOps + 1
  /\ listeners' = IF n \in Range(listeners) THEN listeners ELSE Append(listeners, n)
  /\ UNCHANGED <<running, stop_event, queue, unfinished, task, taskVars, procVars,
                 nextEv, transportLog, tdone, tfail, stoppedEmits, returned, raised,
                 recv, fin, hookStarts, hookStops, stopTrans, stopNoops, settled,
                 enqLog, aborted, cfgVars, psize, startRaised,
                 iterErr>>
  /\ UNCHANGED httpVars

\* remove_listener(name): `self.listeners.pop(name, None)`.  The slot of a
\* removed name stays in the dict as a dummy entry; an absent name changes
\* nothing.
RemoveListener(n) ==
  /\ mapOps < MaxMapOps
  /\ mapOps' = mapOps + 1
  /\ listeners' = [i \in 1..Len(listeners) |->
                     IF listeners[i] = n THEN Gone ELSE listeners[i]]
  /\ UNCHANGED <<running, stop_event, queue, unfinished, task, taskVars, procVars,
                 nextEv, transportLog, tdone, tfail, stoppedEmits, returned, raised,
                 recv, fin, hookStarts, hookStops, stopTrans, stopNoops, settled,
                 enqLog, aborted, cfgVars, psize, startRaised,
                 iterErr>>
  /\ UNCHANGED httpVars

\* ------------------------------------------------------ _process_events
\* The drain loop `while not self._queue.empty()` entered with queue q,
\* unfinished count u and call records r: the next item is dispatched and
\* the task suspends in gather, or the task ends.  With nothing to await the
\* loop runs through all of q without suspending.
DrainLoop(t, q, u, r) ==
  IF q = <<>>
    THEN /\ tstate' = [tstate EXCEPT ![t] = "dead"]
         /\ tcur' = [tcur EXCEPT ![t] = 0]
         /\ tpend' = [tpend EXCEPT ![t] = {}]
         /\ queue' = q
         /\ unfinished' = u
         /\ recv' = r
         /\ pc' = WakeJoiners(u)
    ELSE IF Awaitables = {}
      THEN /\ tstate' = [tstate EXCEPT ![t] = "dead"]
           /\ tcur' = [tcur EXCEPT ![t] = 0]
           /\ tpend' = [tpend EXCEPT ![t] = {}]
           /\ queue' = <<>>
           /\ unfinished' = u - Len(q)
           /\ recv' = [l \in Names |->
                         IF l \in Registered THEN r[l] \o q ELSE r[l]]
           /\ pc' = WakeJoiners(u - Len(q))
      ELSE /\ tstate' = [tstate EXCEPT ![t] = "drain"]
           /\ tcur' = [tcur EXCEPT ![t] = Head(q)]
           /\ tpend' = [tpend EXCEPT ![t] = Awaitables]
           /\ queue' = Tail(q)
           /\ unfinished' = u
           /\ recv' = InvokeAll(r, Head(q))
           /\ pc' = WakeJoiners(u)

\* The head of the main loop, `while self._running`: the task suspends in
\* wait_for(self._queue.get()), or leaves the loop for the drain.
LoopHead(t, q, u, r) ==
  IF running
    THEN /\ tstate' = [tstate EXCEPT ![t] = "wait"]
         /\ tcur' = [tcur EXCEPT ![t] = 0]
         /\ tpend' = [tpend EXCEPT ![t] = {}]
         /\ queue' = q
         /\ unfinished' = u
         /\ recv' = r
         /\ pc' = WakeJoiners(u)
    ELSE DrainLoop(t, q, u, r)

\* The task's first step.  A task cancelled before it ever ran ends without
\* executing any of its body.
TaskStart(t) ==
  /\ tstate[t] = "new"
  /\ IF tcancel[t]
       THEN /\ tstate' = [tstate EXCEPT ![t] = "dead"]
            /\ tcancel' = [tcancel EXCEPT ![t] = FALSE]
            /\ UNCHANGED <<tcur, tpend, queue, unfinished, recv, pc>>
       ELSE /\ LoopHead(t, queue, unfinished, recv)
            /\ UNCHANGED tcancel
  /\ UNCHANGED <<listeners, running, stop_event, task, ntasks, badMode, pev,
                 pidx, pwait, psnap, nextEv, transportLog, tdone, tfail, stoppedEmits,
                 returned, raised, fin, hookStarts, hookStops, stopTrans,
                 stopNoops, settled, enqLog, aborted>>
  /\ UNCHANGED lifeVars
  /\ UNCHANGED httpVars

\* wait_for(self._queue.get()) returns an event: handle_event is called on
\* every listener and the task suspends in gather (main loop).
TaskGet(t) ==
  /\ tstate[t] = "wait"
  /\ ~tcancel[t]
  /\ queue # <<>>
  /\ IF Awaitables = {}
       THEN LoopHead(t, Tail(queue), unfinished - 1, InvokeAll(recv, Head(queue)))
       ELSE /\ tstate' = [tstate EXCEPT ![t] = "disp"]
            /\ tcur' = [tcur EXCEPT ![t] = Head(queue)]
            /\ tpend' = [tpend EXCEPT ![t] = Awaitables]
            /\ queue' = Tail(queue)
            /\ recv' = InvokeAll(recv, Head(queue))
            /\ UNCHANGED <<unfinished, pc>>
  /\ UNCHANGED <<listeners, running, stop_event, task, ntasks, tcancel, badMode,
                 pev, pidx, pwait, psnap, nextEv, transportLog, tdone, tfail,
                 stoppedEmits, returned, raised, fin, hookStarts, hookStops,
                 stopTrans, stopNoops, settled, enqLog, aborted>>
  /\ UNCHANGED lifeVars
  /\ UNCHANGED httpVars

\* wait_for times out on the empty queue after stop() cleared the flag: the
\* loop condition fails and the drain runs.  (While the flag is set a
\* timeout leads back to the same wait.)
TaskTimeout(t) ==
  /\ tstate[t] = "wait"
  /\ ~tcancel[t]
  /\ queue = <<>>
  /\ ~running
  /\ LoopHead(t, queue, unfinished, recv)
  /\ UNCHANGED <<listeners, running, stop_event, task, ntasks, tcancel, badMode,
                 pev, pidx, pwait, psnap, nextEv, transportLog, tdone, tfail,
                 stoppedEmits, returned, raised, fin, hookStarts, hookStops,
                 stopTrans, stopNoops, settled, enqLog, aborted>>
  /\ UNCHANGED lifeVars
  /\ UNCHANGED httpVars

\* Mutant: gather without return_exceptions=True.  The failing listener's
\* exception leaves gather at once: the main loop logs it and continues
\* without task_done, the drain loop is ended by it; the other listeners'
\* calls are no longer awaited.
ListenerDoneRaises(t, l) ==
  /\ tstate[t] \in {"disp", "drain"}
  /\ ~tcancel[t]
  /\ l \in tpend[t]
  /\ fin' = [fin EXCEPT ![l] = @ \cup {tcur[t]}]
  /\ IF l \in Failing
       THEN /\ tpend' = [tpend EXCEPT ![t] = {}]
            /\ tcur' = [tcur EXCEPT ![t] = 0]
            /\ tstate' = [tstate EXCEPT ![t] =
                            IF tstate[t] = "drain" \/ ~running THEN "dead" ELSE "wait"]
       ELSE /\ tpend' = [tpend EXCEPT ![t] = @ \ {l}]
            /\ UNCHANGED <<tcur, tstate>>
  /\ UNCHANGED <<busVars, ntasks, tcancel, badMode, procVars,
                 nextEv, transportLog, tdone, tfail, stoppedEmits, returned, raised,
                 recv, hookStarts, hookStops, stopTrans, stopNoops, settled,
                 enqLog, aborted>>
  /\ UNCHANGED lifeVars
  /\ UNCHANGED httpVars

\* One listener's handle_event coroutine ends (returns, or raises: gather
\* collects the exception as a result).
ListenerDone(t, l) ==
  /\ tstate[t] \in {"disp", "drain"}
  /\ ~tcancel[t]
  /\ l \in tpend[t]
  /\ tpend' = [tpend EXCEPT ![t] = @ \ {l}]
  /\ fin' = [fin EXCEPT ![l] = @ \cup {tcur[t]}]
  /\ UNCHANGED <<busVars, ntasks, tstate, tcur, tcancel, badMode, procVars,
                 nextEv, transportLog, tdone, tfail, stoppedEmits, returned, raised,
                 recv, hookStarts, hookStops, stopTrans, stopNoops, settled,
                 enqLog, aborted>>
  /\ UNCHANGED lifeVars
  /\ UNCHANGED httpVars

\* gather has returned: `self._queue.task_done()`, then the loop the task
\* is in goes on.
TaskResume(t) ==
  /\ tstate[t] \in {"disp", "drain"}
  /\ ~tcancel[t]
  /\ tpend[t] = {}
  /\ IF tstate[t] = "disp"
       THEN LoopHead(t, queue, unfinished - 1, recv)
       ELSE DrainLoop(t, queue, unfinished - 1, recv)
  /\ UNCHANGED <<listeners, running, stop_event, task, ntasks, tcancel, badMode,
                 pev, pidx, pwait, psnap, nextEv, transportLog, tdone, tfail,
                 stoppedEmits, returned, raised, fin, hookStarts, hookStops,
                 stopTrans, stopNoops, settled, enqLog, aborted>>
  /\ UNCHANGED lifeVars
  /\ UNCHANGED httpVars

\* The CancelledError of stop()'s task.cancel() reaches the running task at
\* its await.  In the main loop it is caught (`break`, no task_done) and the
\* drain follows; the handle_event calls gather was awaiting are cancelled.
\* In the drain it is not caught and ends the task.
TaskCancelled(t) ==
  /\ tstate[t] \in {"wait", "disp", "drain"}
  /\ tcancel[t]
  /\ tcancel' = [tcancel EXCEPT ![t] = FALSE]
  /\ aborted' = IF tstate[t] = "wait" THEN aborted ELSE aborted \cup {tcur[t]}
  /\ IF tstate[t] = "drain"
       THEN /\ tstate' = [tstate EXCEPT ![t] = "dead"]
            /\ tcur' = [tcur EXCEPT ![t] = 0]
            /\ tpend' = [tpend EXCEPT ![t] = {}]
            /\ UNCHANGED <<queue, unfinished, recv, pc>>
       ELSE DrainLoop(t, queue, unfinished, recv)
  /\ UNCHANGED <<listeners, running, stop_event, task, ntasks, badMode, pev,
                 pidx, pwait, psnap, nextEv, transportLog, tdone, tfail, stoppedEmits,
                 returned, raised, fin, hookStarts, hookStops, stopTrans,
                 stopNoops, settled, enqLog>>
  /\ UNCHANGED lifeVars
  /\ UNCHANGED httpVars

\* ---------------------------------------------------------------- Next
Next ==
  \/ \E p \in Procs : Emit(p)
  \/ \E p \in Procs : EmitResume(p)
  \/ \E p \in Procs : Start(p)
  \/ \E p \in Procs : StartResume(p)
  \/ \E p \in Procs : Stop(p)
  \/ \E p \in Procs : StopJoined(p)
  \/ \E p \in Procs : StopAwaited(p)
  \/ \E p \in Procs : StopResume(p)
  \/ \E t \in Tasks : TaskStart(t)
  \/ \E t \in Tasks : TaskGet(t)
  \/ \E t \in Tasks : TaskTimeout(t)
  \/ \E t \in Tasks, l \in Names : ListenerDone(t, l)
  \/ \E t \in Tasks : TaskResume(t)
  \/ \E t \in Tasks : TaskCancelled(t)

Spec == Init /\ [][Next]_vars

\* Every coroutine that can resume is resumed in the end by the event loop:
\* the transport call, the listeners' hooks and handle_event calls all
\* terminate, and the loop runs every ready task.  Calls of emit, start and
\* stop are up to the callers and carry no fairness.
Fairness ==
  /\ \A p \in Procs :
       /\ WF_vars(EmitResume(p))
       /\ WF_vars(StartResume(p))
       /\ WF_vars(StopJoined(p))
       /\ WF_vars(StopAwaited(p))
       /\ WF_vars(StopResume(p))
  /\ \A t \in Tasks :
       /\ WF_vars(TaskStart(t))
       /\ WF_vars(TaskGet(t))
       /\ WF_vars(TaskTimeout(t))
       /\ WF_vars(TaskResume(t))
       /\ WF_vars(TaskCancelled(t))
       /\ \A l \in Names : WF_vars(ListenerDone(t, l))

FairSpec == Init /\ [][Next]_vars /\ Fairness

\* The bus with lifecycle hooks that fail: L2's start() hook, L1's stop()
\* hook, both or neither.
LifeInit ==
  /\ BusFields
  /\ badMode = "async"
  /\ startFails \in {{}, {"L2"}}
  /\ stopFails \in {{}, {"L1"}}
  /\ evCap = MaxEvents
  /\ startCap = MaxStarts
  /\ HTTPFields
  /\ batch_size = 1

LifeSpec == LifeInit /\ [][Next]_vars

\* The bus with add_listener and remove_listener called at any moment.
MapNext ==
  \/ \E p \in Procs : Emit(p)
  \/ \E p \in Procs : EmitResume(p)
  \/ \E p \in Procs : Start(p)
  \/ \E p \in Procs : StartResume(p)
  \/ \E p \in Procs : Stop(p)
  \/ \E p \in Procs : StopJoined(p)
  \/ \E p \in Procs : StopAwaited(p)
  \/ \E p \in Procs : StopResume(p)
  \/ \E t \in Tasks : TaskStart(t)
  \/ \E t \in Tasks : TaskGet(t)
  \/ \E t \in Tasks : TaskTimeout(t)
  \/ \E t \in Tasks, l \in Names : ListenerDone(t, l)
  \/ \E t \in Tasks : TaskResume(t)
  \/ \E t \in Tasks : TaskCancelled(t)
  \/ \E n \in Names : AddListener(n)
  \/ \E n \in Names : RemoveListener(n)

MapInit ==
  /\ BusFields
  /\ badMode = "async"
  /\ startFails = {}
  /\ stopFails = {}
  /\ evCap = MapEvents
  /\ startCap = MapStarts
  /\ HTTPFields
  /\ batch_size = 1

MapSpec == MapInit /\ [][MapNext]_vars

\* ======================================================= HTTPTransport
\* The next call is made by the lowest idle caller (callers are
\* interchangeable).
HIdle(c) == hpc[c] = "idle" /\ \A d \in Callers : d < c => hpc[d] # "idle"

\* Some call is in progress when another one begins.
Overlaps == overlap \/ \E d \in Callers : hpc[d] # "idle"

\* asyncio.Lock.release(): the oldest waiter, if any, gets the lock.
Released == IF lockWaiters = <<>> THEN 0 ELSE Head(lockWaiters)

\* Mutant: the flush is triggered only once the batch exceeds batch_size.
ShouldFlushLate(b) == Len(b) > batch_size

\* `if len(self.batch) >= self.batch_size`
ShouldFlush(b) == Len(b) >= batch_size

\* Mutant: the batch is cleared only after a successful POST.
AfterFlushKeepsFailed(b, out) == IF out = "ok" THEN <<>> ELSE b

\* `finally: self.batch.clear()`: the batch after a flush that ended with
\* outcome out ("ok", "status" for a response >= 400, "exception").
AfterFlush(b, out) == <<>>

\* Mutant: no `except Exception` around the POST.
FlushRaisesOnException(out) == out = "exception"

\* `except Exception`: whether the flush passes an error on to its caller.
FlushRaises(out) == FALSE

\* The body of send_event under the lock: append, then flush when the batch
\* is full (the caller suspends in the POST) or release the lock and return.
Critical(c, e) ==
  LET b == Append(batch, e) IN
    /\ appendLog' = Append(appendLog, e)
    /\ IF ShouldFlush(b)
         THEN /\ batch' = b
              /\ session' = TRUE
              /\ payload' = [payload EXCEPT ![c] = b]
              /\ posts' = Append(posts, [by |-> "send_event", evs |-> b])
              /\ hpc' = [hpc EXCEPT ![c] = "post"]
              /\ hev' = [hev EXCEPT ![c] = e]
              /\ lock' = c
              /\ UNCHANGED <<lockWaiters, lastRet>>
         ELSE /\ batch' = b
              /\ hpc' = [hpc EXCEPT ![c] = "idle"]
              /\ hev' = [hev EXCEPT ![c] = 0]
              /\ lock' = Released
              /\ lockWaiters' = IF lockWaiters = <<>> THEN <<>> ELSE Tail(lockWaiters)
              /\ lastRet' = [len |-> Len(b), flushed |-> FALSE]
              /\ UNCHANGED <<session, payload, posts>>

\* send_event, from its call to its first suspension: the lock's acquire()
\* when the lock is taken, else the POST, else to its return.
SendEvent(c) ==
  /\ HIdle(c)
  /\ nsent < MaxSends
  /\ nsent' = nsent + 1
  /\ overlap' = Overlaps
  /\ IF lock = 0
       THEN Critical(c, nsent + 1)
       ELSE /\ lockWaiters' = Append(lockWaiters, c)
            /\ hpc' = [hpc EXCEPT ![c] = "lock_wait"]
            /\ hev' = [hev EXCEPT ![c] = nsent + 1]
            /\ UNCHANGED <<batch, lock, session, payload, posts, appendLog,
                           lastRet>>
  /\ UNCHANGED <<batch_size, hstops, stopLog, failedEvs, hraised>>
  /\ UNCHANGED busAll

\* send_event, resumed with the lock.
SendLocked(c) ==
  /\ hpc[c] = "lock_wait"
  /\ lock = c
  /\ Critical(c, hev[c])
  /\ UNCHANGED <<batch_size, nsent, hstops, stopLog, overlap, failedEvs, hraised>>
  /\ UNCHANGED busAll

\* send_event, resumed when its flush's POST has ended: the batch is
\* cleared, the lock released, send_event returns.
PostDone(c) ==
  /\ hpc[c] = "post"
  /\ \E out \in {"ok", "status", "exception"} :
       /\ batch' = AfterFlush(batch, out)
       /\ failedEvs' = IF out = "ok" THEN failedEvs
                       ELSE failedEvs \cup Range(payload[c])
       /\ hraised' = IF FlushRaises(out) THEN hraised \cup {hev[c]} ELSE hraised
       /\ lastRet' = [len |-> Len(AfterFlush(batch, out)), flushed |-> TRUE]
  /\ payload' = [payload EXCEPT ![c] = <<>>]
  /\ hpc' = [hpc EXCEPT ![c] = "idle"]
  /\ hev' = [hev EXCEPT ![c] = 0]
  /\ lock' = Released
  /\ lockWaiters' = IF lockWaiters = <<>> THEN <<>> ELSE Tail(lockWaiters)
  /\ UNCHANGED <<batch_size, session, nsent, hstops, stopLog, overlap,
                 appendLog, posts>>
  /\ UNCHANGED busAll

\* HTTPTransport.stop(), from its call to its first suspension: the POST of
\* its flush (made without the lock) when the batch is not empty, else the
\* close of the session, else to its return.
TransportStop(c) ==
  /\ HIdle(c)
  /\ hstops < MaxHStops
  /\ hstops' = hstops + 1
  /\ stopLog' = Append(stopLog, nsent)
  /\ overlap' = Overlaps
  /\ IF batch # <<>>
       THEN /\ session' = TRUE
            /\ payload' = [payload EXCEPT ![c] = batch]
            /\ posts' = Append(posts, [by |-> "stop", evs |-> batch])
            /\ hpc' = [hpc EXCEPT ![c] = "stop_post"]
       ELSE /\ hpc' = [hpc EXCEPT ![c] = IF session THEN "closing" ELSE "idle"]
            /\ UNCHANGED <<session, payload, posts>>
  /\ UNCHANGED <<batch_size, batch, lock, lockWaiters, hev, nsent, appendLog,
                 failedEvs, hraised, lastRet>>
  /\ UNCHANGED busAll

\* stop(), resumed when its flush's POST has ended: the batch is cleared,
\* then the session, if there is one, is closed.
StopPostDone(c) ==
  /\ hpc[c] = "stop_post"
  /\ \E out \in {"ok", "status", "exception"} :
       /\ batch' = AfterFlush(batch, out)
       /\ failedEvs' = IF out = "ok" THEN failedEvs
                       ELSE failedEvs \cup Range(payload[c])
  /\ payload' = [payload EXCEPT ![c] = <<>>]
  /\ hpc' = [hpc EXCEPT ![c] = IF session THEN "closing" ELSE "idle"]
  /\ UNCHANGED <<batch_size, lock, lockWaiters, session, hev, nsent, hstops,
                 stopLog, overlap, appendLog, posts, hraised, lastRet>>
  /\ UNCHANGED busAll

\* stop(), resumed when session.close() has returned: `self._session = None`.
StopClosed(c) ==
  /\ hpc[c] = "closing"
  /\ session' = FALSE
  /\ hpc' = [hpc EXCEPT ![c] = "idle"]
  /\ UNCHANGED <<batch_size, batch, lock, lockWaiters, hev, payload, nsent,
                 hstops, stopLog, overlap, appendLog, posts, failedEvs, hraised,
                 lastRet>>
  /\ UNCHANGED busAll

HTTPNext ==
  \/ \E c \in Callers : SendEvent(c)
  \/ \E c \in Callers : SendLocked(c)
  \/ \E c \in Callers : PostDone(c)
  \/ \E c \in Callers : TransportStop(c)
  \/ \E c \in Callers : StopPostDone(c)
  \/ \E c \in Callers : StopClosed(c)

HTTPSpec == HTTPInit /\ [][HTTPNext]_vars

\* ------------------------------------------------------------- claims
NoDuplicates(s) == \A i, j \in 1..Len(s) : i # j => s[i] # s[j]

\* handle_event of listener l has ended for event e (returned or raised).
Completed(l, e) ==
  \/ e \in fin[l]
  \/ l \in Failing /\ badMode = "sync" /\ e \in Range(recv[l])

\* C1: the transport is handed the events of the accepted emit calls in the
\* order in which emit was called (events are numbered in call order), also
\* when emits overlap, and an emit that has returned has had its
\* transport.send_event call end first.
C1_TransportOrder ==
  /\ \A i, j \in 1..Len(transportLog) : i < j => transportLog[i] < transportLog[j]
  /\ Range(transportLog) = (1..nextEv) \ stoppedEmits
  /\ returned \subseteq tdone
  /\ \A p \in Procs : pc[p] = "emit_tx" => pev[p] \in Range(transportLog) \ returned

\* A later emit has returned while an earlier one is still suspended in the
\* transport.
C1_Witness ==
  \E p \in Procs : /\ pc[p] = "emit_tx"
                   /\ \E e \in returned : e > pev[p]

\* C2: an event emitted while the bus is not running never reaches the
\* transport, the queue or a listener (also not after a later start), and
\* its emit raises nothing.
C2_StoppedEmitIsNoOp ==
  \A e \in stoppedEmits :
    /\ e \notin Range(transportLog)
    /\ e \notin Range(queue)
    /\ e \notin Range(enqLog)
    /\ \A l \in Names : e \notin Range(recv[l])
    /\ \A t \in Tasks : tcur[t] # e
    /\ \A p \in Procs : pev[p] # e
    /\ e \notin raised

\* An event was dropped and, after a later start, a later event went through
\* to the listeners.
C2_Witness ==
  \E e \in stoppedEmits : \E f \in fin["L1"] : f > e /\ stopTrans > 0

\* C3: once a stop() has returned, every event accepted before that stop()
\* cleared the running flag has had handle_event end on every listener and
\* is no longer queued.
C3_StopCompletesAccepted ==
  \A e \in settled :
    /\ e \notin Range(queue)
    /\ \A l \in Registered : Completed(l, e)

\* C4: next to the always-failing listener L2, the well-behaved L1 is handed
\* every event taken from the queue exactly once, its handle_event is left
\* to run to its end unless stop() cancels the dispatch, and the dispatch
\* task never ends except through stop().
C4_FailureIsolated ==
  /\ NoDuplicates(recv["L1"])
  /\ \A e \in Range(enqLog) : e \in Range(queue) \/ e \in Range(recv["L1"])
  /\ \A e \in Range(recv["L1"]) :
       \/ e \in fin["L1"]
       \/ \E t \in Tasks : tcur[t] = e /\ "L1" \in tpend[t]
       \/ e \in aborted
  /\ \A t \in Tasks : tstate[t] = "dead" => stopTrans > 0

\* L2 has failed on two events and L1 has handled both to the end, the bus
\* never having been stopped.
C4_Witness ==
  /\ stopTrans = 0
  /\ \E e, f \in fin["L1"] : e # f /\ Completed("L2", e) /\ Completed("L2", f)

\* C5: no emit call raises; an event whose transport.send_event raised has
\* been put on the listener queue by an emit that returned normally.
C5_NoErrorOutOfEmit ==
  /\ raised = {}
  /\ \A e \in tfail : e \in returned /\ e \in Range(enqLog)

\* The transport failed for an event, which both listeners then handled (L2
\* failing on it).
C5_Witness ==
  \E e \in tfail : e \in returned /\ e \in fin["L1"] /\ Completed("L2", e)

\* C6: every lifecycle-aware listener's stop() hook has been called once for
\* each transition from running to stopped (less the stop() calls still on
\* their way to it), so a stop() made while the bus is not running calls no
\* hook.
C6_StopIdempotent ==
  \A i \in 1..Len(listeners) :
    IsLifecycleAware(listeners[i]) =>
      hookStops[listeners[i]]
        + Cardinality({p \in Procs :
                         \/ pc[p] \in {"stop_join", "stop_joined", "stop_await"}
                         \/ pc[p] = "stop_hooks" /\ pidx[p] < i})
        = stopTrans

\* A second stop() has returned while the first one is still calling hooks.
C6_Witness ==
  /\ stopTrans = 1
  /\ stopNoops = 1
  /\ \E p \in Procs : pc[p] = "stop_hooks" /\ pidx[p] = 1

\* The k-th full batch of B events, and the POSTs that N sequential
\* send_event calls followed by stop() are to issue.
Chunk(k, B) == [i \in 1..B |-> (k - 1) * B + i]

ExpectedPosts(N, B) ==
  [k \in 1..((N \div B) + (IF N % B > 0 THEN 1 ELSE 0)) |->
     IF k <= N \div B
       THEN [by |-> "send_event", evs |-> Chunk(k, B)]
       ELSE [by |-> "stop", evs |-> [i \in 1..(N % B) |-> (N \div B) * B + i]]]

AllIdle == \A c \in Callers : hpc[c] = "idle"

\* C7: as long as no two calls overlap, the number of POSTs issued by N
\* send_event calls is floor(N / batch_size), each issued in the call that
\* fills the batch; once a stop() that follows them has returned, the POSTs
\* are the floor(N / batch_size) full batches in order, then one POST by
\* stop() of the N mod batch_size remaining events, if any.
C7_PostsOfSequentialRun ==
  /\ (~overlap /\ hstops = 0) =>
       /\ Len(posts) = nsent \div batch_size
       /\ \A k \in 1..Len(posts) : posts[k] = ExpectedPosts(nsent, batch_size)[k]
       /\ AllIdle => Len(batch) = nsent % batch_size
  /\ (~overlap /\ hstops = 1 /\ AllIdle /\ stopLog = <<nsent>>) =>
       /\ posts = ExpectedPosts(nsent, batch_size)
       /\ batch = <<>>

\* batch_size = 2, three send_event calls, then stop(): two POSTs, of
\* events 1, 2 and of event 3.
C7_Witness ==
  /\ ~overlap /\ AllIdle
  /\ batch_size = 2 /\ nsent = 3 /\ stopLog = <<3>>
  /\ posts = << [by |-> "send_event", evs |-> <<1, 2>>],
                [by |-> "stop", evs |-> <<3>>] >>

\* The POSTs whose payload holds event e.
PostsOf(e) == {k \in 1..Len(posts) : e \in Range(posts[k].evs)}

\* C8: an event appended to the batch is in the payload of at most one
\* POST, and as long as it is in none it is still in the batch.
C8_NoLossNoDuplicate ==
  \A e \in Range(appendLog) :
    /\ Cardinality(PostsOf(e)) <= 1
    /\ e \in Range(batch) \/ PostsOf(e) # {}

\* C9: no send_event raises; the events of a failed POST are out of the
\* batch for good; a failed flush leaves the lock free, and every flush by
\* send_event, after a failure as before, carries exactly batch_size events.
C9_RemoteFailureContained ==
  /\ hraised = {}
  /\ failedEvs \cap Range(batch) = {}
  /\ \A k \in 1..Len(posts) :
       posts[k].by = "send_event" => Len(posts[k].evs) = batch_size
  /\ lock # 0 => hpc[lock] \in {"post", "lock_wait"}
  /\ lock = 0 => lockWaiters = <<>>

\* A POST failed, and a later flush by send_event sent the events that came
\* after it.
C9_Witness ==
  /\ AllIdle /\ hstops = 0
  /\ \E j, k \in 1..Len(posts) :
       /\ j < k
       /\ Range(posts[j].evs) \subseteq failedEvs
       /\ Range(posts[k].evs) \cap failedEvs = {}

\* C10: the batch never holds more than batch_size events, in particular
\* not when a send_event returns, and it is empty when a send_event that
\* flushed returns.
C10_BatchBounded ==
  /\ Len(batch) <= batch_size
  /\ lastRet.len <= batch_size
  /\ lastRet.flushed => lastRet.len = 0

\* A send_event has returned from a flush while a stop() is in progress.
C10_Witness ==
  /\ lastRet.flushed
  /\ \E c \in Callers : hpc[c] \in {"stop_post", "closing"}
  /\ Len(posts) >= 2

\* The dispatch tasks that have been spawned and have not ended.
AliveTasks == {t \in Tasks : tstate[t] \notin {"unborn", "dead"}}

\* C11: a lifecycle-aware listener's start() hook has been called at most
\* once for each transition from stopped to running (there is at most one
\* more such transition than there were transitions from running to
\* stopped), and at most one dispatch task is alive at any time.
C11_StartIdempotent ==
  /\ \A l \in LifecycleAware : hookStarts[l] <= stopTrans + 1
  /\ Cardinality(AliveTasks) <= 1

\* C13: a stop() call that has passed the running check returns in the end.
C13_StopReturns ==
  \A p \in Procs :
    (pc[p] \in {"stop_join", "stop_joined", "stop_await", "stop_hooks"})
      ~> (pc[p] = "idle")

\* The position of event e in the order of enqueueing.
EnqPos(e) == CHOOSE i \in 1..Len(enqLog) : enqLog[i] = e

\* Every listener has had handle_event called with exactly the events taken
\* from the queue so far, in the order in which emit enqueued them.
FIFOInvocation ==
  \A l \in Registered :
    recv[l] = SubSeq(enqLog, 1, Len(enqLog) - Len(queue))

\* At most one event is being dispatched at any moment.
OneDispatchAtATime ==
  Cardinality({t \in Tasks : tstate[t] \in {"disp", "drain"}}) <= 1

\* C15: the listeners are handed the queued events in the order of
\* enqueueing, and the dispatch of an event has ended before the dispatch of
\* the next one begins, in the main loop and in the drain.
C15_FIFODispatch == FIFOInvocation /\ OneDispatchAtATime

\* C16: a flush suspended in its POST belongs to the holder of the lock, so
\* at most one flush is in progress at any time, started by send_event or
\* by stop().
C16_FlushUnderLock ==
  /\ \A c \in Callers : hpc[c] \in {"post", "stop_post"} => lock = c
  /\ Cardinality({c \in Callers : hpc[c] \in {"post", "stop_post"}}) <= 1

\* C19: an event is on the queue, or has been handed to a listener, only
\* after the transport's send_event for it has ended (normally or with a
\* caught failure); an event still in the transport call is nowhere else.
C19_TransportBeforeQueue ==
  /\ Range(enqLog) \subseteq tdone
  /\ Range(queue) \subseteq tdone
  /\ \A l \in Names : Range(recv[l]) \subseteq tdone
  /\ \A t \in Tasks : tcur[t] # 0 => tcur[t] \in tdone
  /\ tdone \subseteq Range(transportLog)

\* An event whose transport call failed has been handled by L1 while a
\* later event is still in its transport call, handed to no listener.
C19_Witness ==
  /\ \E e \in tfail : e \in fin["L1"]
  /\ \E p \in Procs : /\ pc[p] = "emit_tx"
                       /\ pev[p] \notin Range(enqLog)
                       /\ pev[p] \notin Range(recv["L1"])

\* A stop() has reached its stop() hooks (or has ended) and no start() has
\* been called since.
StoppedPhase ==
  /\ ~running
  /\ stopTrans > 0
  /\ \A p \in Procs :
       pc[p] \notin {"start_hooks", "stop_join", "stop_joined", "stop_await"}

\* No handle_event is being executed from the first stop() hook on.
NoDispatchAfterStop ==
  StoppedPhase => \A t \in Tasks : tstate[t] \notin {"disp", "drain"}

\* C20: while a stop() is calling the stop() hooks, and from then on until
\* the next start() is called, no dispatch task is alive: none is in the
\* main loop or the drain, and no handle_event is being executed.
C20_TaskEndedBeforeStopHooks ==
  /\ StoppedPhase => AliveTasks = {}
  /\ NoDispatchAfterStop

\* Some stop() call has passed the running check and has not ended.
StopInProgress ==
  \E p \in Procs : pc[p] \in {"stop_join", "stop_joined", "stop_await", "stop_hooks"}

\* C12: once the stop() calls made have ended, every registered
\* lifecycle-aware listener has had its stop() hook called once for each
\* transition from running to stopped, whichever hooks failed.
C12_StopHooksIsolated ==
  ~StopInProgress =>
    \A l \in LifecycleAware \cap Registered : hookStops[l] = stopTrans

\* C14: with a registered listener whose start() hook fails, no start()
\* ever sets the running flag or spawns a task, every start() call that has
\* ended has ended with the exception, and every emit is dropped.
C14_FailedStartLeavesBusStopped ==
  startFails \cap Registered # {} =>
    /\ ~running
    /\ task = 0
    /\ ntasks = 0
    /\ AliveTasks = {}
    /\ transportLog = <<>>
    /\ queue = <<>>
    /\ stoppedEmits = 1..nextEv
    /\ (\A p \in Procs : pc[p] # "start_hooks") => startRaised = hookStarts["L1"]

\* A start() has failed in L2's hook, and an emit made after it was dropped.
C14_Witness ==
  /\ startFails = {"L2"}
  /\ startRaised >= 1
  /\ hookStarts["L2"] >= 1
  /\ stoppedEmits # {}
  /\ \A p \in Procs : pc[p] = "idle"

\* C17: an add_listener or remove_listener call changes the listener map
\* by the one name at most and nothing else: it calls no start() or stop()
\* hook and hands no event to anyone; and each dispatch of an event hands it
\* to exactly the listeners registered at that moment.
C17_MapCallsOnlyMutateMap ==
  [][ /\ mapOps' # mapOps =>
           /\ \E n \in Names : \/ Registered' = Registered \cup {n}
                               \/ Registered' = Registered \ {n}
           /\ Cardinality(Registered') = Len(SelectSeq(listeners', LAMBDA x : x # Gone))
           /\ UNCHANGED <<hookStarts, hookStops, recv, fin, running, stop_event,
                          queue, unfinished, task, taskVars, procVars, psize,
                          startRaised, iterErr>>
      /\ recv' # recv =>
           \A l \in Names : IF l \in Registered
                              THEN Len(recv'[l]) > Len(recv[l])
                              ELSE recv'[l] = recv[l]
    ]_vars

\* L3 was added after the one start() call made had called its hooks and
\* the bus was running: its start() hook was not called, and it has handled
\* the event dispatched since.
C17_Witness ==
  /\ running
  /\ "L3" \in Registered
  /\ hookStarts["L3"] = 0
  /\ hookStarts["L1"] = 1
  /\ hookStarts["L2"] = 1
  /\ ntasks = 1
  /\ mapOps = 1
  /\ recv["L3"] = <<1>>
  /\ 1 \in fin["L3"]

\* C18: no start(), stop() or dispatch is ended by an error of the
\* iteration over the listener map, whenever add_listener and
\* remove_listener are called.
C18_MapSafeUnderInterleaving == iterErr = {}

====
